---- MODULE Spec2Model ----
(***************************************************************************)
(* Presence aggregation and retention engine of the Slack Active Users     *)
(* Overlay userscript (slack-active-users-overlay.user.js).                *)
(*                                                                         *)
(* Instants are milliseconds since 2024-01-01T00:00:00.000Z.  An ISO-8601  *)
(* UTC string is modelled by the triple <<date, hour, rest>> of its        *)
(* calendar-date part (counted in days since 2024-01-01), its hour field   *)
(* and its minute/second/millisecond fields (as milliseconds).             *)
(***************************************************************************)
EXTENDS Integers, Sequences, FiniteSets, TLC

\* ------------------------------------------------------------------ bounds
\* The clock stays within the days 0..MaxDay.
MaxDay == 2
\* prefs.horizonDays is a persisted preference; it ranges over 1..MaxHorizon.
MaxHorizon == 2
\* Number of invocations of logPresenceOnce in one behaviour.
MaxCycles == 2
\* The counters of the tallies handed to the classifiers range over 0..MaxCount.
MaxCount == 5
\* prefs.activeThresholdMin ranges over 0..MaxThreshold there.
MaxThreshold == 2
\* fmtSince is called for elapsed times up to MaxMultiple minutes, hours and days.
MaxMultiple == 2

\* ------------------------------------------------------- program constants
HourMs    == 3600000
DayMs     == 86400000
MinuteMs  == 60000
HoursPerDay == 24
\* the cells of the mini bars: for (let i = 11; i >= 0; i--)
MiniHours == 12
\* rec.lastSeenActive: null
NullTs == -1

PRES_ACTIVE == "active"
PRES_AWAY   == "away"
PRES_DND    == "dnd"
PRES_OFF    == "offline"
Presences == {PRES_ACTIVE, PRES_AWAY, PRES_DND, PRES_OFF}

Filters == {"all", "active", "inactive", "vacation"}

\* ------------------------------------------------------------ time helpers
\* Date.UTC(y, m, d, h, 0, 0, 0)
DateUTC(date, hour) == date * DayMs + hour * HourMs

\* d.getUTCFullYear(), d.getUTCMonth(), d.getUTCDate() taken together
getUTCDate(t) == t \div DayMs

getUTCHours(t) == (t % DayMs) \div HourMs

\* Date.prototype.toISOString
toISOString(t) == <<t \div DayMs, (t % DayMs) \div HourMs, t % HourMs>>

\* new Date(isoString).getTime()
parseISO(k) == k[1] * DayMs + k[2] * HourMs + k[3]

\* toUtcHourKey built from the hour alone.
toUtcHourKeyNoDate(d) == toISOString(DateUTC(0, getUTCHours(d)))

toUtcHourKey(d) == toISOString(DateUTC(getUTCDate(d), getUTCHours(d)))

\* utcStartOfDayMinus(days), n being the reading of now() it takes
utcStartOfDayMinus(n, days) == DateUTC(getUTCDate(n), 0) - days * DayMs

\* What fmtSince returns: a number and a unit, the unit alone for 'just now'
\* and for the dash.
SinceText(n, unit) == [n |-> n, unit |-> unit]

\* fmtSince with the minute boundary moved: min <= 1 is 'just now'.
fmtSinceLate(ts, dateNow) ==
  IF ts = NullTs THEN SinceText(0, "-")
  ELSE LET elapsed == dateNow - ts
           min     == (IF elapsed > 0 THEN elapsed ELSE 0) \div MinuteMs
           h       == min \div 60
       IN IF min <= 1 THEN SinceText(0, "just now")
          ELSE IF min < 60 THEN SinceText(min, "min")
          ELSE IF h < 24 THEN SinceText(h, "h")
          ELSE SinceText(h \div 24, "d")

\* fmtSince(ts), dateNow being its reading of Date.now()
fmtSince(ts, dateNow) ==
  IF ts = NullTs THEN SinceText(0, "-")
  ELSE LET elapsed == dateNow - ts
           min     == (IF elapsed > 0 THEN elapsed ELSE 0) \div MinuteMs
           h       == min \div 60
       IN IF min < 1 THEN SinceText(0, "just now")
          ELSE IF min < 60 THEN SinceText(min, "min")
          ELSE IF h < 24 THEN SinceText(h, "h")
          ELSE SinceText(h \div 24, "d")

\* --------------------------------------------------------------- the clock
\* Instants of a day at which the clock is read: 00:00:01.000, 10:15, 10:50
\* and 23:59:59.999.
DayInstants == {1000,
                10 * HourMs + 15 * MinuteMs,
                10 * HourMs + 50 * MinuteMs,
                DayMs - 1}

Instants == {d * DayMs + o : d \in 0..MaxDay, o \in DayInstants}

HasNext(I, t) == \E x \in I : x > t

NextInstant(I, t) == CHOOSE x \in I : x > t /\ \A y \in I : y > t => x <= y

\* ------------------------------------------------------------------- JSON
JsNull == [null |-> TRUE]

\* JSON.stringify / JSON.parse: a text is either the serialization of a value
\* or a text that JSON.parse rejects.
stringify(v) == [json |-> v]

Malformed == [malformed |-> TRUE]

parseOk(text) == "json" \in DOMAIN text

parse(text) == text.json

\* What the storage backend holds under a key: nothing, or a text.
Absent == [present |-> FALSE]

Held(text) == [present |-> TRUE, text |-> text]

EmptyStore == [users |-> [id \in {} |-> 0]]

\* Storage.get(key, fallback); gm is gmAvailable, slot what the backend holds.
\* GM_getValue(key, 'null') yields the text 'null' for a missing key,
\* localStorage.getItem(key) yields null.
StorageGet(gm, slot, fallback) ==
  LET raw == IF slot.present THEN slot.text
             ELSE IF gm THEN stringify(JsNull) ELSE JsNull
  IN IF raw = JsNull THEN fallback
     ELSE IF parseOk(raw) THEN parse(raw)
     ELSE fallback

\* Storage.set(key, value)
StorageSet(value) == Held(stringify(value))

\* Storage.del(key)
StorageDel == Absent

loadStore(gm, slot) == StorageGet(gm, slot, EmptyStore)

saveStore(s) == StorageSet(s)


\* ------------------------------------------------------------ object maps
\* obj[k] = v on a plain object
Put(f, k, v) == [x \in DOMAIN f \cup {k} |-> IF x = k THEN v ELSE f[x]]

\* a || b with the right-hand side lost: a blank overwrites what is stored.
OrElseBlank(a, b) == a

\* a || b on strings: the empty string is falsy
OrElse(a, b) == IF a # "" THEN a ELSE b

\* ------------------------------------------------- rows of the DM sidebar
\* What enumerateDmUsers() returns for one sidebar row.
Row(id, presence, name, avatar, text, emoji, short, src) ==
  [id |-> id, name |-> name, avatar |-> avatar, presence |-> presence,
   customStatusText |-> text, customStatusEmoji |-> emoji,
   customStatusEmojiShort |-> short, customStatusSrc |-> src]

\* What extractRowPresence reads off a sidebar row: whether the row has the
\* presence indicator svg, its data-qa-presence-active and -dnd attributes,
\* whether the name carries the --away class, and the class of .c-avatar__presence
\* ("none" when the row has no such element).
DomStates ==
  [svg : BOOLEAN, active : BOOLEAN, dnd : BOOLEAN, awayByClass : BOOLEAN,
   pres : {"none", "c-presence--active", "c-presence--away", "c-presence--huddle"}]

\* extractRowPresence with the final fallback lost: the class of the element
\* is handed on.
extractRowPresenceRaw(dom) ==
  IF dom.svg
  THEN IF dom.active THEN PRES_ACTIVE
       ELSE IF dom.dnd THEN PRES_DND
       ELSE IF dom.awayByClass THEN PRES_AWAY
       ELSE PRES_OFF
  ELSE IF dom.pres = "c-presence--active" THEN PRES_ACTIVE
       ELSE IF dom.awayByClass \/ dom.pres = "c-presence--away" THEN PRES_AWAY
       ELSE dom.pres

extractRowPresence(dom) ==
  IF dom.svg
  THEN IF dom.active THEN PRES_ACTIVE
       ELSE IF dom.dnd THEN PRES_DND
       ELSE IF dom.awayByClass THEN PRES_AWAY
       ELSE PRES_OFF
  ELSE IF dom.pres = "c-presence--active" THEN PRES_ACTIVE
       ELSE IF dom.awayByClass \/ dom.pres = "c-presence--away" THEN PRES_AWAY
       ELSE PRES_OFF

\* The row enumerateDmUsers returns for a sidebar row of user Ann in DOM
\* state dom.
DomRow(id, dom) == Row(id, extractRowPresence(dom), "Ann", "ann.png", "", "", "", "")

PlainRow(id, presence) ==
  IF id = "u1" THEN Row(id, presence, "Ann", "ann.png", "", "", "", "")
  ELSE Row(id, presence, "Bob", "bob.png", "", "", "", "")

\* ------------------------------------------------------ presence logging
ZeroTally == [a |-> 0, w |-> 0, d |-> 0, t |-> 0]

NoHourly == [k \in {} |-> ZeroTally]

\* NewRecord taking the record's id from the row's display name.
NewRecordIdFromName(u) ==
  [id |-> u.name, name |-> u.name, avatar |-> u.avatar,
   lastSeenActive |-> NullTs, lastStatus |-> PRES_OFF,
   customStatusEmoji |-> "", customStatusEmojiShort |-> "",
   customStatusText |-> "", customStatusSrc |-> "",
   hourly |-> NoHourly]

\* NewRecord with the defaults of a record that was seen: lastSeenActive 0
\* and lastStatus active.
NewRecordSeen(u) ==
  [id |-> u.id, name |-> u.name, avatar |-> u.avatar,
   lastSeenActive |-> 0, lastStatus |-> PRES_ACTIVE,
   customStatusEmoji |-> "", customStatusEmojiShort |-> "",
   customStatusText |-> "", customStatusSrc |-> "",
   hourly |-> NoHourly]

\* The record logPresenceOnce creates for an id it has not stored yet.
NewRecord(u) ==
  [id |-> u.id, name |-> u.name, avatar |-> u.avatar,
   lastSeenActive |-> NullTs, lastStatus |-> PRES_OFF,
   customStatusEmoji |-> "", customStatusEmojiShort |-> "",
   customStatusText |-> "", customStatusSrc |-> "",
   hourly |-> NoHourly]

\* Count with the else-if chain broken: an active sample also counts as away.
CountActiveTwice(h, p) ==
  [a |-> h.a + (IF p = PRES_ACTIVE THEN 1 ELSE 0),
   w |-> h.w + (IF p \in {PRES_ACTIVE, PRES_AWAY} THEN 1 ELSE 0),
   d |-> h.d + (IF p = PRES_DND THEN 1 ELSE 0),
   t |-> h.t + 1]

\* Count as a set union would do it: a bucket that exists is left as it is.
CountOnce(h, p) ==
  IF h.t > 0 THEN h
  ELSE [a |-> IF p = PRES_ACTIVE THEN 1 ELSE 0,
        w |-> IF p = PRES_AWAY THEN 1 ELSE 0,
        d |-> IF p = PRES_DND THEN 1 ELSE 0,
        t |-> 1]

\* rec.hourly[hourKey] after one observation of presence p
Count(h, p) ==
  [a |-> h.a + (IF p = PRES_ACTIVE THEN 1 ELSE 0),
   w |-> h.w + (IF p = PRES_AWAY THEN 1 ELSE 0),
   d |-> h.d + (IF p = PRES_DND THEN 1 ELSE 0),
   t |-> h.t + 1]

\* MergeRow with lastSeenActive set by every presence but offline.
MergeRowSeenOnline(store, u, hourKey, dateNow) ==
  LET rec0 == IF u.id \in DOMAIN store.users THEN store.users[u.id] ELSE NewRecord(u)
      h0   == IF hourKey \in DOMAIN rec0.hourly THEN rec0.hourly[hourKey] ELSE ZeroTally
      rec  == [rec0 EXCEPT
                 !.name = OrElse(u.name, @),
                 !.avatar = OrElse(u.avatar, @),
                 !.lastStatus = u.presence,
                 !.lastSeenActive = IF u.presence # PRES_OFF THEN dateNow ELSE @,
                 !.customStatusEmoji = OrElse(u.customStatusEmoji, @),
                 !.customStatusEmojiShort = OrElse(u.customStatusEmojiShort, @),
                 !.customStatusText = OrElse(u.customStatusText, @),
                 !.customStatusSrc = OrElse(u.customStatusSrc, @),
                 !.hourly = Put(@, hourKey, Count(h0, u.presence))]
  IN [store EXCEPT !.users = Put(@, u.id, rec)]

\* MergeRow resetting lastSeenActive to null for a row that is not active.
MergeRowForgetsSeen(store, u, hourKey, dateNow) ==
  LET rec0 == IF u.id \in DOMAIN store.users THEN store.users[u.id] ELSE NewRecord(u)
      h0   == IF hourKey \in DOMAIN rec0.hourly THEN rec0.hourly[hourKey] ELSE ZeroTally
      rec  == [rec0 EXCEPT
                 !.name = OrElse(u.name, @),
                 !.avatar = OrElse(u.avatar, @),
                 !.lastStatus = u.presence,
                 !.lastSeenActive = IF u.presence = PRES_ACTIVE THEN dateNow ELSE NullTs,
                 !.customStatusEmoji = OrElse(u.customStatusEmoji, @),
                 !.customStatusEmojiShort = OrElse(u.customStatusEmojiShort, @),
                 !.customStatusText = OrElse(u.customStatusText, @),
                 !.customStatusSrc = OrElse(u.customStatusSrc, @),
                 !.hourly = Put(@, hourKey, Count(h0, u.presence))]
  IN [store EXCEPT !.users = Put(@, u.id, rec)]

\* One iteration of the loop of logPresenceOnce over the rows; dateNow is the
\* reading Date.now() gives in it.
MergeRow(store, u, hourKey, dateNow) ==
  LET rec0 == IF u.id \in DOMAIN store.users THEN store.users[u.id] ELSE NewRecord(u)
      h0   == IF hourKey \in DOMAIN rec0.hourly THEN rec0.hourly[hourKey] ELSE ZeroTally
      rec  == [rec0 EXCEPT
                 !.name = OrElse(u.name, @),
                 !.avatar = OrElse(u.avatar, @),
                 !.lastStatus = u.presence,
                 !.lastSeenActive = IF u.presence = PRES_ACTIVE THEN dateNow ELSE @,
                 !.customStatusEmoji = OrElse(u.customStatusEmoji, @),
                 !.customStatusEmojiShort = OrElse(u.customStatusEmojiShort, @),
                 !.customStatusText = OrElse(u.customStatusText, @),
                 !.customStatusSrc = OrElse(u.customStatusSrc, @),
                 !.hourly = Put(@, hourKey, Count(h0, u.presence))]
  IN [store EXCEPT !.users = Put(@, u.id, rec)]

\* The loop of logPresenceOnce over users[i..]; reads[i] is the reading of
\* Date.now() in iteration i.
RECURSIVE MergeFrom(_, _, _, _, _)
MergeFrom(store, users, i, hourKey, reads) ==
  IF i > Len(users) THEN store
  ELSE MergeFrom(MergeRow(store, users[i], hourKey, reads[i]), users, i + 1, hourKey, reads)

Merge(store, users, hourKey, reads) == MergeFrom(store, users, 1, hourKey, reads)

\* ----------------------------------------------------------------- pruning
\* KeepSet with the window starting one day early: horizonDays - day in place
\* of horizonDays - 1 - day.
KeepSetDayEarly(horizonDays, reads) ==
  UNION {{toISOString(utcStartOfDayMinus(reads[day + 1], horizonDays - day) + h * HourMs)
            : h \in 0..(HoursPerDay - 1)}
           : day \in 0..(horizonDays - 1)}

\* The set keep of pruneOld; reads[day + 1] is the reading of now() that
\* utcStartOfDayMinus takes in iteration day of the outer loop.
KeepSet(horizonDays, reads) ==
  UNION {{toISOString(utcStartOfDayMinus(reads[day + 1], horizonDays - 1 - day) + h * HourMs)
            : h \in 0..(HoursPerDay - 1)}
           : day \in 0..(horizonDays - 1)}

\* PruneRecord emptying the expired buckets in place of deleting them.
PruneRecordZero(u, keep) ==
  [u EXCEPT !.hourly = [k \in DOMAIN u.hourly |->
                          IF k \in keep THEN u.hourly[k] ELSE ZeroTally]]

PruneRecord(u, keep) ==
  [u EXCEPT !.hourly = [k \in (DOMAIN u.hourly) \cap keep |-> u.hourly[k]]]

\* pruneOld that also drops the records it has emptied.
pruneOldDropEmpty(store, horizonDays, reads) ==
  LET keep == KeepSet(horizonDays, reads)
      left == {id \in DOMAIN store.users : (DOMAIN store.users[id].hourly) \cap keep # {}}
  IN [store EXCEPT !.users = [id \in left |-> PruneRecord(store.users[id], keep)]]

pruneOld(store, horizonDays, reads) ==
  LET keep == KeepSet(horizonDays, reads)
  IN [store EXCEPT !.users = [id \in DOMAIN store.users |-> PruneRecord(store.users[id], keep)]]


\* ---------------------------------------------------------------- overlay
\* undefined
Undefined == [undefined |-> TRUE]

\* u.name.toLowerCase().includes(query), for the queries typed in the model
NameIncludes(name, query) ==
  \/ query = ""
  \/ query = "ann" /\ name \in {"Ann", "Anna"}

Queries == {"", "ann"}

\* (u.f || ''): the field, or the empty string when the object has none
FieldOr(u, f) == IF f \in DOMAIN u THEN u[f] ELSE ""

\* isVacation(u) for an object u; the substring and word tests are tabulated
\* for the texts that occur in the model's rows.
isVacation(u) ==
  \/ FieldOr(u, "customStatusEmoji") \in {"palm_tree"}
  \/ FieldOr(u, "customStatusEmojiShort") \in {":palm_tree:"}
  \/ FieldOr(u, "customStatusSrc") \in {"1f334.png"}
  \/ FieldOr(u, "customStatusText") \in {"OOO", "Urlaub"}

\* isVacation(u) throws at u.customStatusEmoji when u is undefined.
isVacationThrows(u) == u = Undefined

\* The predicate of users.filter(...) in renderOverlay.
Shown(u, filter, query) ==
  /\ NameIncludes(u.name, query)
  /\ CASE filter = "active"   -> u.presence = PRES_ACTIVE
       [] filter = "inactive" -> u.presence # PRES_ACTIVE
       [] filter = "vacation" -> isVacation(u)
       [] OTHER               -> TRUE

Filtered(users, filter, query) == SelectSeq(users, LAMBDA u : Shown(u, filter, query))

\* renderOverlay throws at store.users[u.id] when loadStore() gave null and
\* some row passes the filter.
RenderThrows(store, users, filter, query) ==
  store = JsNull /\ Filtered(users, filter, query) # <<>>

\* find() on the rows of the sidebar: is there a row with this id
HasLive(users, userId) == \E i \in 1..Len(users) : users[i].id = userId

\* rec || live in showTooltip
RecOrLive(store, users, userId) ==
  IF userId \in DOMAIN store.users THEN store.users[userId]
  ELSE IF HasLive(users, userId)
       THEN users[CHOOSE i \in 1..Len(users) :
                    users[i].id = userId /\ \A j \in 1..(i - 1) : users[j].id # userId]
       ELSE Undefined

\* showTooltip throws at store.users[userId] when loadStore() gave null, and
\* at isVacation(rec || live) when the id has neither a record nor a row.
TooltipThrows(store, users, userId) ==
  \/ store = JsNull
  \/ store # JsNull /\ isVacationThrows(RecOrLive(store, users, userId))

\* rec.hourly?.[key]
HourlyAt(rec, key) ==
  IF rec # Undefined /\ key \in DOMAIN rec.hourly THEN rec.hourly[key] ELSE Undefined

\* x | 0 for a counter x: ToInt32 leaves an integer of -2^31 .. 2^31 - 1 as it
\* is, and the counters of a tally (at most one per sampled row) and the
\* model's integers all lie in that range.
ToInt32(x) == x

\* ClassifyMini testing away before dnd.
ClassifyMiniAwayFirst(hr, activeThresholdMin) ==
  IF hr = Undefined THEN "i"
  ELSE IF ToInt32(hr.a) >= activeThresholdMin THEN "a"
  ELSE IF ToInt32(hr.w) >= activeThresholdMin THEN "w"
  ELSE IF ToInt32(hr.d) >= activeThresholdMin THEN "d"
  ELSE "i"

\* The class renderMiniBars gives the tally hr of an hour.
ClassifyMini(hr, activeThresholdMin) ==
  IF hr = Undefined THEN "i"
  ELSE IF ToInt32(hr.a) >= activeThresholdMin THEN "a"
  ELSE IF ToInt32(hr.d) >= activeThresholdMin THEN "d"
  ELSE IF ToInt32(hr.w) >= activeThresholdMin THEN "w"
  ELSE "i"

\* The class showTooltip gives the tally hr of an hour.
ClassifyHeat(hr, activeThresholdMin) ==
  IF hr = Undefined THEN "i"
  ELSE IF ToInt32(hr.a) >= activeThresholdMin THEN "a"
  ELSE IF ToInt32(hr.d) >= activeThresholdMin THEN "d"
  ELSE IF ToInt32(hr.w) >= activeThresholdMin THEN "w"
  ELSE "i"

\* renderMiniBars with the loop running from MiniHours down to 1.
renderMiniBarsShifted(rec, n, activeThresholdMin) ==
  LET baseUTC == DateUTC(getUTCDate(n), getUTCHours(n))
  IN [j \in 1..MiniHours |->
        LET key == toISOString(baseUTC - (MiniHours - j + 1) * HourMs)
        IN [key |-> key, cls |-> ClassifyMini(HourlyAt(rec, key), activeThresholdMin)]]

\* The cells of renderMiniBars(rec), n being its reading of now(); cell j is
\* the one pushed for i = MiniHours - j.
renderMiniBars(rec, n, activeThresholdMin) ==
  LET baseUTC == DateUTC(getUTCDate(n), getUTCHours(n))
  IN [j \in 1..MiniHours |->
        LET key == toISOString(baseUTC - (MiniHours - j) * HourMs)
        IN [key |-> key, cls |-> ClassifyMini(HourlyAt(rec, key), activeThresholdMin)]]

\* HeatRows with row day starting at utcStartOfDayMinus(day + 1).
HeatRowsFromYesterday(rec, horizonDays, reads, activeThresholdMin) ==
  [r \in 1..horizonDays |->
     [c \in 1..HoursPerDay |->
        LET key == toISOString(utcStartOfDayMinus(reads[r], r) + (c - 1) * HourMs)
        IN [key |-> key, cls |-> ClassifyHeat(HourlyAt(rec, key), activeThresholdMin)]]]

\* The rows of showTooltip's grid; reads[day + 1] is the reading of now() that
\* utcStartOfDayMinus takes for row day.
HeatRows(rec, horizonDays, reads, activeThresholdMin) ==
  [r \in 1..horizonDays |->
     [c \in 1..HoursPerDay |->
        LET key == toISOString(utcStartOfDayMinus(reads[r], r - 1) + (c - 1) * HourMs)
        IN [key |-> key, cls |-> ClassifyHeat(HourlyAt(rec, key), activeThresholdMin)]]]

\* ------------------------------------------------------------------- state
VARIABLES
  gmAvailable,  \* typeof GM_getValue === 'function'
  prefs,        \* the prefs object
  stored,       \* what the storage backend holds under STORE_KEY
  clock,        \* the latest reading of the wall clock
  overlay,      \* #gmAU_Overlay and #gmAU_Tooltip exist
  cycles,       \* invocations of logPresenceOnce so far
  last,         \* the handler that ran last and how it ended
  streak,       \* the run of equal merges since the store was empty
  pc,           \* where the invocation of logPresenceOnce on the call stack is
  local,        \* the const store of that invocation
  out           \* what the helper that was called last returned

vars == <<gmAvailable, prefs, stored, clock, overlay, cycles, last, streak, pc, local, out>>

\* The variables only the step-wise handlers and the helper calls change.
stepVars == <<pc, local, out>>

NoOut == [op |-> "none"]

\* The event loop dispatching a handler while another is on the stack.
CallStackAny == TRUE

\* A handler starts only when no other is running: timers and listeners are
\* dispatched by the event loop, and every handler here is synchronous.
CallStackEmpty == pc = "idle"

NoKey == <<0, 0, 0>>

Ran(op, threw) ==
  [op |-> op, threw |-> threw, users |-> <<>>,
   hourKey |-> NoKey, dateNow |-> <<>>, pruneNow |-> <<>>]

NoStreak == [n |-> 0, users |-> <<>>, hourKey |-> NoKey]

\* The store every reader sees: loadStore().
Store == loadStore(gmAvailable, stored)

\* The state when the script has been loaded: the preferences are read, the
\* storage holds what an earlier session left, no overlay exists yet.
InitP(I, Earlier) ==
  /\ gmAvailable \in BOOLEAN
  /\ \E h \in 1..MaxHorizon :
       prefs = [horizonDays |-> h, activeThresholdMin |-> 1, overlayFilter |-> "all"]
  /\ stored \in {Absent, Held(Malformed), Held(stringify(EmptyStore))}
                  \cup {Held(stringify(s)) : s \in Earlier}
  /\ clock = CHOOSE t \in I : \A x \in I : t <= x
  /\ overlay = FALSE
  /\ cycles = 0
  /\ last = Ran("load", FALSE)
  /\ streak = NoStreak
  /\ pc = "idle"
  /\ local = JsNull
  /\ out = NoOut

\* The i-th reading of the clock in a handler that starts at the instant t0
\* and during which the clock moves on to t1 before reading number tickAt.
Reading(i, tickAt, t0, t1) == IF i < tickAt THEN t0 ELSE t1

\* logPresenceOnce() with the sidebar showing users.  Its readings of the
\* clock, in order: 1 toUtcHourKey(); 1 + i Date.now() for row i;
\* n + 1 + d utcStartOfDayMinus in iteration d - 1 of pruneOld; n + 2 + H
\* renderMiniBars.
LogBody(users, tickAt, t0, t1) ==
  LET n        == Len(users)
      H        == prefs.horizonDays
      store    == Store
      hourKey  == toUtcHourKey(Reading(1, tickAt, t0, t1))
      dateNow  == [i \in 1..n |-> Reading(1 + i, tickAt, t0, t1)]
      pruneNow == [d \in 1..H |-> Reading(n + 1 + d, tickAt, t0, t1)]
  IN /\ cycles' = cycles + 1
     /\ IF store = JsNull
        THEN \* TypeError: store.users of null, in the loop or in pruneOld
             /\ stored' = stored
             /\ clock' = IF n > 0 THEN Reading(1, tickAt, t0, t1)
                         ELSE Reading(n + 1 + H, tickAt, t0, t1)
             /\ last' = [Ran("logPresenceOnce", TRUE) EXCEPT
                           !.users = users, !.hourKey = hourKey]
             /\ streak' = streak
        ELSE /\ stored' = saveStore(pruneOld(Merge(store, users, hourKey, dateNow), H, pruneNow))
             /\ clock' = Reading(n + 2 + H, tickAt, t0, t1)
             /\ last' = [Ran("logPresenceOnce", FALSE) EXCEPT
                           !.users = users, !.hourKey = hourKey,
                           !.dateNow = dateNow, !.pruneNow = pruneNow]
             /\ streak' =
                  IF \E i \in 1..n : toUtcHourKey(dateNow[i]) # hourKey THEN NoStreak
                  ELSE IF \E d \in 1..H : toUtcHourKey(pruneNow[d]) # hourKey THEN NoStreak
                  ELSE IF store = EmptyStore THEN [n |-> 1, users |-> users, hourKey |-> hourKey]
                  ELSE IF streak.n > 0 /\ streak.users = users /\ streak.hourKey = hourKey
                       THEN [streak EXCEPT !.n = @ + 1]
                  ELSE NoStreak

\* The readings before which the clock may move on during logPresenceOnce
\* over n rows: the first Date.now(), each reading of pruneOld, or none
\* (n + 3 + H).
TickPoints(n, H) == {2} \cup ((n + 2)..(n + 1 + H)) \cup {n + 3 + H}

\* logPresenceOnce, called by setInterval(logPresenceOnce, scanIntervalMs), by
\* a click on #gmAU_btnRefresh, or by init() after ensureOverlay().  It starts
\* at an instant t0 not before the latest reading.  The overlay exists
\* afterwards if it existed, if init() made it, or if renderOverlay() was
\* reached.
logPresenceOnce(S, I) ==
  /\ CallStackEmpty
  /\ cycles < MaxCycles
  /\ \E t0 \in {t \in I : t >= clock} :
       \E t1 \in {IF HasNext(I, t0) THEN NextInstant(I, t0) ELSE t0}, users \in S :
         \E tickAt \in {k \in TickPoints(Len(users), prefs.horizonDays) :
                           k = Len(users) + 3 + prefs.horizonDays \/ t1 # t0} :
           LogBody(users, tickAt, t0, t1)
  /\ \E trigger \in {"timer", "refresh", "init"} :
       /\ trigger = "refresh" => overlay
       /\ overlay' = (overlay \/ trigger = "init" \/ ~last'.threw)
  /\ UNCHANGED <<gmAvailable, prefs>>
  /\ UNCHANGED stepVars

\* clearStore(): confirm(...) answers confirmed; then Storage.del(STORE_KEY)
\* and renderOverlay()
clearStore(S, Answers) ==
  /\ CallStackEmpty
  /\ overlay
  /\ \E confirmed \in Answers, users \in S, query \in Queries :
       IF confirmed
       THEN /\ stored' = StorageDel
            /\ last' = Ran("clearStore",
                           RenderThrows(loadStore(gmAvailable, StorageDel), users,
                                        prefs.overlayFilter, query))
       ELSE /\ stored' = stored
            /\ last' = Ran("clearDeclined", FALSE)
  /\ streak' = NoStreak
  /\ UNCHANGED <<gmAvailable, prefs, clock, overlay, cycles>>
  /\ UNCHANGED stepVars

\* renderOverlay() from the search box, the sidebar observer or visibilitychange
renderOverlay(S) ==
  /\ CallStackEmpty
  /\ overlay
  /\ \E users \in S, query \in Queries :
       last' = Ran("renderOverlay", RenderThrows(Store, users, prefs.overlayFilter, query))
  /\ UNCHANGED <<gmAvailable, prefs, stored, clock, overlay, cycles, streak>>
  /\ UNCHANGED stepVars

\* The filter click with savePrefs writing under STORE_KEY.
filterClickWrongKey(S) ==
  /\ CallStackEmpty
  /\ overlay
  /\ \E f \in Filters, users \in S, query \in Queries :
       /\ prefs' = [prefs EXCEPT !.overlayFilter = f]
       /\ stored' = StorageSet(prefs')
       /\ last' = Ran("filterClick", RenderThrows(Store, users, f, query))
  /\ UNCHANGED <<gmAvailable, clock, overlay, cycles, streak>>
  /\ UNCHANGED stepVars

\* click on a filter button: prefs.overlayFilter, savePrefs, renderOverlay
filterClick(S) ==
  /\ CallStackEmpty
  /\ overlay
  /\ \E f \in Filters, users \in S, query \in Queries :
       /\ prefs' = [prefs EXCEPT !.overlayFilter = f]
       /\ last' = Ran("filterClick", RenderThrows(Store, users, f, query))
  /\ UNCHANGED <<gmAvailable, stored, clock, overlay, cycles, streak>>
  /\ UNCHANGED stepVars

\* showTooltip(userId, opts) from a hover over an item of the overlay or over
\* any row of the sidebar, with the sidebar showing the DM rows users.  It
\* starts at t0; the clock moves on to t1 before the reading of row tickAt
\* of the grid (never, for tickAt = horizonDays + 1).  Nothing is shown when
\* it throws.
showTooltip(S, Ids, I) ==
  /\ CallStackEmpty
  /\ overlay
  /\ \E userId \in Ids, users \in S, t0 \in {t \in I : t >= clock} :
       \E t1 \in {IF HasNext(I, t0) THEN NextInstant(I, t0) ELSE t0} :
         \E tickAt \in {k \in 2..(prefs.horizonDays + 1) :
                           k = prefs.horizonDays + 1 \/ t1 # t0} :
           LET H     == prefs.horizonDays
               threw == TooltipThrows(Store, users, userId)
               rec   == IF Store # JsNull /\ userId \in DOMAIN Store.users
                        THEN Store.users[userId] ELSE Undefined
               reads == [r \in 1..H |-> Reading(r, tickAt, t0, t1)]
           IN /\ last' = Ran("showTooltip", threw)
              /\ clock' = IF Store = JsNull THEN t0 ELSE Reading(H, tickAt, t0, t1)
              /\ out' = IF threw THEN out
                        ELSE [op |-> "showTooltip", userId |-> userId, rec |-> rec,
                              reads |-> reads,
                              rows |-> HeatRows(rec, H, reads, prefs.activeThresholdMin)]
  /\ UNCHANGED <<gmAvailable, prefs, stored, overlay, cycles, streak, pc, local>>

\* exportStore(): JSON.stringify(loadStore(), null, 2) into a download
exportStore ==
  /\ CallStackEmpty
  /\ overlay
  /\ last' = Ran("exportStore", FALSE)
  /\ UNCHANGED <<gmAvailable, prefs, stored, clock, overlay, cycles, streak>>
  /\ UNCHANGED stepVars

\* ------------------------------------------- logPresenceOnce, statement-wise
\* The statements of logPresenceOnce one by one, the clock standing still at
\* the instant the invocation starts.
\* const store = loadStore(); const hourKey = toUtcHourKey();
logLoad(I) ==
  /\ CallStackEmpty
  /\ cycles < MaxCycles
  /\ \E t0 \in {t \in I : t >= clock}, trigger \in {"timer", "refresh", "init"} :
       /\ trigger = "refresh" => overlay
       /\ overlay' = (overlay \/ trigger = "init")
       /\ clock' = t0
       /\ last' = [Ran("logPresenceOnce", FALSE) EXCEPT !.hourKey = toUtcHourKey(t0)]
  /\ local' = Store
  /\ pc' = "merge"
  /\ cycles' = cycles + 1
  /\ streak' = NoStreak
  /\ UNCHANGED <<gmAvailable, prefs, stored, out>>

\* const users = enumerateDmUsers(); for (const u of users) { ... }
logMerge(S) ==
  /\ pc = "merge"
  /\ \E users \in S :
       LET dateNow == [i \in 1..Len(users) |-> clock]
       IN IF local = JsNull /\ users # <<>>
          THEN /\ pc' = "idle"
               /\ local' = local
               /\ last' = [last EXCEPT !.threw = TRUE, !.users = users]
          ELSE /\ pc' = "prune"
               /\ local' = IF local = JsNull THEN local
                            ELSE Merge(local, users, last.hourKey, dateNow)
               /\ last' = [last EXCEPT !.users = users, !.dateNow = dateNow]
  /\ UNCHANGED <<gmAvailable, prefs, stored, clock, overlay, cycles, streak, out>>

\* pruneOld(store);
logPrune ==
  /\ pc = "prune"
  /\ LET pruneNow == [d \in 1..prefs.horizonDays |-> clock]
     IN IF local = JsNull
        THEN /\ pc' = "idle"
             /\ local' = local
             /\ last' = [last EXCEPT !.threw = TRUE]
        ELSE /\ pc' = "save"
             /\ local' = pruneOld(local, prefs.horizonDays, pruneNow)
             /\ last' = [last EXCEPT !.pruneNow = pruneNow]
  /\ UNCHANGED <<gmAvailable, prefs, stored, clock, overlay, cycles, streak, out>>

\* saveStore(store);
logSave ==
  /\ pc = "save"
  /\ stored' = saveStore(local)
  /\ pc' = "render"
  /\ UNCHANGED <<gmAvailable, prefs, clock, overlay, cycles, last, streak, local, out>>

\* renderOverlay(); and the return
logRender(S) ==
  /\ pc = "render"
  /\ \E users \in S, query \in Queries :
       last' = [last EXCEPT !.threw = RenderThrows(Store, users, prefs.overlayFilter, query)]
  /\ overlay' = TRUE
  /\ pc' = "idle"
  /\ UNCHANGED <<gmAvailable, prefs, stored, clock, cycles, streak, local, out>>

\* ------------------------------------------------------- calls of helpers
\* The classification of one hour as renderMiniBars and as showTooltip do it.
classify(Tallies, Thresholds) ==
  /\ \E hr \in Tallies, th \in Thresholds :
       out' = [op |-> "classify", hr |-> hr, th |-> th,
               mini |-> ClassifyMini(hr, th), heat |-> ClassifyHeat(hr, th)]
  /\ UNCHANGED <<gmAvailable, prefs, stored, clock, overlay, cycles, last, streak, pc, local>>

\* renderMiniBars(rec) for a row of the overlay's list, as renderOverlay
\* calls it with rec = store.users[u.id]; without a record it returns ''.
miniBars(Ids, I) ==
  /\ CallStackEmpty
  /\ overlay
  /\ Store # JsNull
  /\ \E userId \in Ids, n \in {t \in I : t >= clock} :
       LET rec == IF userId \in DOMAIN Store.users THEN Store.users[userId] ELSE Undefined
       IN /\ clock' = n
          /\ out' = [op |-> "renderMiniBars", userId |-> userId, rec |-> rec, n |-> n,
                     cells |-> IF rec = Undefined THEN <<>>
                               ELSE renderMiniBars(rec, n, prefs.activeThresholdMin)]
  /\ UNCHANGED <<gmAvailable, prefs, stored, overlay, cycles, last, streak, pc, local>>

\* fmtSince(ts) called when Date.now() reads dateNow
fmtSinceCall(Args, dateNow) ==
  /\ \E ts \in Args :
       out' = [op |-> "fmtSince", ts |-> ts, now |-> dateNow, text |-> fmtSince(ts, dateNow)]
  /\ UNCHANGED <<gmAvailable, prefs, stored, clock, overlay, cycles, last, streak, pc, local>>

\* toUtcHourKey(d) for two dates
toUtcHourKeyCall(I) ==
  /\ \E d1 \in I, d2 \in I :
       out' = [op |-> "toUtcHourKey", d1 |-> d1, d2 |-> d2,
               k1 |-> toUtcHourKey(d1), k2 |-> toUtcHourKey(d2)]
  /\ UNCHANGED <<gmAvailable, prefs, stored, clock, overlay, cycles, last, streak, pc, local>>

\* isVacation(u)
isVacationCall(Args) ==
  /\ \E u \in Args :
       out' = [op |-> "isVacation", u |-> u, threw |-> isVacationThrows(u),
               res |-> IF isVacationThrows(u) THEN FALSE ELSE isVacation(u)]
  /\ UNCHANGED <<gmAvailable, prefs, stored, clock, overlay, cycles, last, streak, pc, local>>

\* ----------------------------------------------------------- specifications
\* Spec: the retention engine over days; two users.
SnapshotsSpec ==
  {<<>>,
   <<PlainRow("u1", PRES_ACTIVE)>>,
   <<PlainRow("u1", PRES_OFF)>>,
   <<PlainRow("u2", PRES_AWAY)>>,
   <<PlainRow("u1", PRES_ACTIVE), PlainRow("u2", PRES_AWAY)>>}

\* What a session of the day before day 0 left behind: u1 seen active at
\* 10:15 of that day.
EarlierInstant == 10 * HourMs + 15 * MinuteMs - DayMs

EarlierStore ==
  Merge(EmptyStore, <<PlainRow("u1", PRES_ACTIVE)>>, toUtcHourKey(EarlierInstant),
        <<EarlierInstant>>)

Init == InitP(Instants, {EarlierStore})

Next ==
  \/ logPresenceOnce(SnapshotsSpec, Instants)
  \/ clearStore(SnapshotsSpec, {TRUE})

Spec == Init /\ [][Next]_vars

\* SpecMerge: the merge over two days' border; rows with every presence,
\* with blank and changing texts, and the same id on two rows.
BlankRow(id, presence) == Row(id, presence, "", "", "", "", "", "")

VacationRow(id, presence) ==
  Row(id, presence, "Ann", "", "OOO", "palm_tree", ":palm_tree:", "1f334.png")

RenamedRow(id, presence) ==
  Row(id, presence, "Anna", "anna.png", "Urlaub", "island", ":island:", "1f3dd.png")

PresenceRows == {PlainRow("u1", p) : p \in Presences}

TextRows == {BlankRow("u1", PRES_OFF), VacationRow("u1", PRES_OFF), RenamedRow("u1", PRES_OFF)}

OtherRows == {PlainRow("u2", PRES_ACTIVE), PlainRow("u2", PRES_DND)}

SnapshotsMerge ==
  {<<>>}
    \cup {<<r>> : r \in PresenceRows \cup TextRows \cup OtherRows}
    \cup {<<r, q>> : r \in PresenceRows,
                      q \in {PlainRow("u1", PRES_ACTIVE), PlainRow("u1", PRES_AWAY)} \cup OtherRows}

\* 10:15 and 10:50 of day 0, 00:00:01 of day 1
MergeInstants == {10 * HourMs + 15 * MinuteMs, 10 * HourMs + 50 * MinuteMs, DayMs + 1000}

InitMerge == InitP(MergeInstants, {})

NextMerge ==
  \/ logPresenceOnce(SnapshotsMerge, MergeInstants)
  \/ clearStore(SnapshotsMerge, {TRUE})

SpecMerge == InitMerge /\ [][NextMerge]_vars

\* SpecDom: the merge of rows in every state of their presence markup.
\* A row without any recognised marker: no svg, an element of another class.
UnknownDom ==
  [svg |-> FALSE, active |-> FALSE, dnd |-> FALSE, awayByClass |-> FALSE,
   pres |-> "c-presence--huddle"]

SnapshotsDom == {<<>>} \cup {<<DomRow("u1", dom)>> : dom \in DomStates}

InitDom == InitP(MergeInstants, {})

NextDom ==
  \/ logPresenceOnce(SnapshotsDom, MergeInstants)
  \/ clearStore(SnapshotsDom, {TRUE})

SpecDom == InitDom /\ [][NextDom]_vars

\* SpecSteps: invocations of logPresenceOnce statement by statement, with
\* clicks on the clear button waiting to be dispatched.
InitSteps == InitP(MergeInstants, {})

NextSteps ==
  \/ logLoad(MergeInstants)
  \/ logMerge(SnapshotsSpec)
  \/ logPrune
  \/ logSave
  \/ logRender(SnapshotsSpec)
  \/ clearStore(SnapshotsSpec, {TRUE})

SpecSteps == InitSteps /\ [][NextSteps]_vars

\* SpecLoop: logPresenceOnce statement by statement over snapshots in which an
\* id occurs on several rows.
SnapshotsLoop ==
  {<<>>,
   <<PlainRow("u1", PRES_ACTIVE)>>,
   <<PlainRow("u1", PRES_ACTIVE), PlainRow("u1", PRES_AWAY)>>,
   <<PlainRow("u1", PRES_ACTIVE), PlainRow("u2", PRES_AWAY)>>,
   <<PlainRow("u2", PRES_DND), PlainRow("u1", PRES_OFF), PlainRow("u2", PRES_DND)>>}

InitLoop == InitP(MergeInstants, {})

NextLoop ==
  \/ logLoad(MergeInstants)
  \/ logMerge(SnapshotsLoop)
  \/ logPrune
  \/ logSave
  \/ logRender(SnapshotsLoop)

SpecLoop == InitLoop /\ [][NextLoop]_vars

\* SpecUI: the handlers of the overlay between two cycles of one hour.
SnapshotsUI ==
  {<<>>,
   <<PlainRow("u1", PRES_ACTIVE)>>,
   <<VacationRow("u1", PRES_AWAY), PlainRow("u2", PRES_OFF)>>}

\* The ids hovered: a DM row's and a channel row's.
IdsUI == {"u1", "c1"}

\* 10:15 and 10:50 of day 0
UIInstants == {10 * HourMs + 15 * MinuteMs, 10 * HourMs + 50 * MinuteMs}

InitUI == InitP(UIInstants, {})

NextUI ==
  \/ logPresenceOnce(SnapshotsUI, UIInstants)
  \/ clearStore(SnapshotsUI, BOOLEAN)
  \/ renderOverlay(SnapshotsUI)
  \/ filterClick(SnapshotsUI)
  \/ showTooltip(SnapshotsUI, IdsUI, UIInstants)
  \/ exportStore

SpecUI == InitUI /\ [][NextUI]_vars

\* SpecFn: the helpers called on their own, on the localStorage backend with
\* nothing stored.
TalliesFn ==
  {Undefined} \cup
  {[a |-> a, w |-> w, d |-> d, t |-> a + w + d + o] :
     a \in 0..MaxCount, w \in 0..MaxCount, d \in 0..MaxCount, o \in 0..1}

InitFn ==
  /\ InitP(MergeInstants, {})
  /\ ~gmAvailable
  /\ stored = Absent
  /\ prefs.horizonDays = 1

\* Elapsed whole seconds around the multiples of a minute, an hour and a day;
\* -1 is an instant one second ahead of the clock.
SinceSeconds ==
  {m * u + e : u \in {60, 3600, 86400}, m \in 0..MaxMultiple, e \in {-1, 0, 1}}
    \cup {59 * 60 + 59, 23 * 3600 + 3599}

\* the instant at which fmtSince is called
SinceNow == 10 * DayMs

SinceArgs == {NullTs} \cup {SinceNow - e * 1000 : e \in SinceSeconds}

\* Instants at the borders of hours and days.
KeyInstants ==
  {d * DayMs + h * HourMs + e : d \in 0..MaxDay, h \in {0, 1, HoursPerDay - 1},
                                e \in {0, 1, HourMs - 1}}

\* Arguments of isVacation: what the tooltip passes for the ids hovered over
\* an empty store, rows, and objects that lack fields.
VacationArgs ==
  {RecOrLive(EmptyStore, users, id) : users \in SnapshotsUI, id \in IdsUI}
    \cup {VacationRow("u1", PRES_OFF), RenamedRow("u1", PRES_OFF), NewRecord(PlainRow("u1", PRES_OFF))}
    \cup {[id |-> "u1"], [customStatusText |-> "OOO"], [customStatusText |-> "lunch"],
          [customStatusEmoji |-> "palm_tree", customStatusSrc |-> ""],
          [name |-> "Ann", customStatusEmojiShort |-> ":palm_tree:"]}

NextFn ==
  \/ classify(TalliesFn, 0..MaxThreshold)
  \/ fmtSinceCall(SinceArgs, SinceNow)
  \/ toUtcHourKeyCall(KeyInstants)
  \/ isVacationCall(VacationArgs)

SpecFn == InitFn /\ [][NextFn]_vars

\* SpecView: the mini bars and the tooltip's grid around midnight.
\* 10:15 and 23:59:59.999 of day 0, 00:00:01 and 03:15 of day 1
ViewInstants ==
  {10 * HourMs + 15 * MinuteMs, DayMs - 1, DayMs + 1000, DayMs + 3 * HourMs + 15 * MinuteMs}

SnapshotsView ==
  {<<PlainRow("u1", PRES_ACTIVE)>>, <<PlainRow("u1", PRES_DND)>>, <<PlainRow("u2", PRES_AWAY)>>}

IdsView == {"u1", "u2"}

InitView == InitP(ViewInstants, {}) /\ ~gmAvailable

NextView ==
  \/ logPresenceOnce(SnapshotsView, ViewInstants)
  \/ miniBars(IdsView, ViewInstants)
  \/ showTooltip(SnapshotsView, IdsView, ViewInstants)

SpecView == InitView /\ [][NextView]_vars

\* ------------------------------------------------------------ properties
\* The records of a loaded store; null has none.
UsersOf(st) == IF st = JsNull THEN EmptyStore.users ELSE st.users

\* The tally of a bucket, {0,0,0,0} where there is none.
TallyAt(st, id, k) ==
  IF id \in DOMAIN UsersOf(st) /\ k \in DOMAIN UsersOf(st)[id].hourly
  THEN UsersOf(st)[id].hourly[k] ELSE ZeroTally

\* The rows of a snapshot that carry an id, and those of them with a presence.
RowsOf(users, id) == {i \in 1..Len(users) : users[i].id = id}

RowsWith(users, id, p) == {i \in RowsOf(users, id) : users[i].presence = p}

\* This step is an invocation of logPresenceOnce that reached saveStore.
CycleDone == cycles' = cycles + 1 /\ ~last'.threw

\* This step is a confirmed clearStore.
Cleared == last'.op = "clearStore" /\ stored' = Absent /\ cycles' = cycles

TallyOk(h) ==
  /\ h.a >= 0 /\ h.w >= 0 /\ h.d >= 0 /\ h.t >= 0
  /\ h.a + h.w + h.d <= h.t

C1_Tallies ==
  \A id \in DOMAIN UsersOf(Store) :
    \A k \in DOMAIN UsersOf(Store)[id].hourly : TallyOk(UsersOf(Store)[id].hourly[k])

C1_Sample ==
  CycleDone =>
    \A id \in DOMAIN UsersOf(Store') :
      LET k   == last'.hourKey
          old == TallyAt(Store, id, k)
          new == TallyAt(Store', id, k)
          us  == last'.users
      IN k \in DOMAIN UsersOf(Store')[id].hourly =>
           /\ new.t = old.t + Cardinality(RowsOf(us, id))
           /\ new.a = old.a + Cardinality(RowsWith(us, id, PRES_ACTIVE))
           /\ new.w = old.w + Cardinality(RowsWith(us, id, PRES_AWAY))
           /\ new.d = old.d + Cardinality(RowsWith(us, id, PRES_DND))

\* C1: in every store state every tally of every record has non-negative
\* counters with a + w + d <= t, and a cycle adds to the current bucket of a
\* record one to t per row of that record and one to a, w or d per row
\* whose presence is active, away or dnd (nothing for offline).
C1_TallyInvariant == []C1_Tallies /\ [][C1_Sample]_vars

\* A bucket that holds an active sample and an offline one.
C1_Witness ==
  \E id \in DOMAIN UsersOf(Store) :
    \E k \in DOMAIN UsersOf(Store)[id].hourly :
      LET h == UsersOf(Store)[id].hourly[k]
      IN h.t >= 2 /\ h.a >= 1 /\ h.a + h.w + h.d < h.t

\* The state follows an invocation of logPresenceOnce that reached saveStore.
AfterCycle == last.op = "logPresenceOnce" /\ ~last.threw

\* k is the start of a UTC hour in [utcDayStart(H-1), utcDayStart(0) + 24h),
\* the days being counted back from the instant n.
InWindow(k, n, H) ==
  /\ k[3] = 0
  /\ k[2] \in 0..(HoursPerDay - 1)
  /\ utcStartOfDayMinus(n, H - 1) <= parseISO(k)
  /\ parseISO(k) < utcStartOfDayMinus(n, 0) + DayMs

\* C2: after every completed cycle every record of the persisted store has
\* at most horizonDays * 24 hourly keys (they all lie in the keep set of the
\* cycle's pruneOld, which has horizonDays * 24 elements), and every key is
\* the start of a UTC hour inside [utcDayStart(H-1), utcDayStart(0) + 24h),
\* the window being taken at the instant the cycle began and also at the
\* instant pruneOld first read the clock.
C2_RetentionBound ==
  AfterCycle =>
    LET H    == prefs.horizonDays
        keep == KeepSet(H, last.pruneNow)
    IN /\ Cardinality(keep) = H * HoursPerDay
       /\ \A id \in DOMAIN UsersOf(Store) :
            LET hourly == UsersOf(Store)[id].hourly
            IN /\ DOMAIN hourly \subseteq keep
               /\ Cardinality(DOMAIN hourly) <= H * HoursPerDay
               /\ \A k \in DOMAIN hourly :
                    /\ InWindow(k, parseISO(last.hourKey), H)
                    /\ InWindow(k, last.pruneNow[1], H)

\* After a completed cycle with horizonDays = 2 a record holds a bucket of
\* the day before the cycle's day and one of the cycle's day, and some record
\* has lost every bucket.
C2_Witness ==
  /\ AfterCycle
  /\ prefs.horizonDays = 2
  /\ \E id \in DOMAIN UsersOf(Store) :
       /\ last.hourKey \in DOMAIN UsersOf(Store)[id].hourly
       /\ \E k \in DOMAIN UsersOf(Store)[id].hourly : k[1] = last.hourKey[1] - 1
  /\ \E id \in DOMAIN UsersOf(Store) : DOMAIN UsersOf(Store)[id].hourly = {}

\* C3 as stated: after n merges of the same snapshot within one UTC hour
\* into an empty store, the total of the current-hour bucket is n for every
\* row of the snapshot.
C3_TotalIsN ==
  streak.n > 0 =>
    \A i \in 1..Len(streak.users) :
      TallyAt(Store, streak.users[i].id, streak.hourKey).t = streak.n

C3_Totals ==
  streak.n > 0 =>
    \A i \in 1..Len(streak.users) :
      LET id == streak.users[i].id
          h  == TallyAt(Store, id, streak.hourKey)
          m  == streak.n
      IN /\ h.t = m * Cardinality(RowsOf(streak.users, id))
         /\ h.a = m * Cardinality(RowsWith(streak.users, id, PRES_ACTIVE))
         /\ h.w = m * Cardinality(RowsWith(streak.users, id, PRES_AWAY))
         /\ h.d = m * Cardinality(RowsWith(streak.users, id, PRES_DND))

C3_NotIdempotent ==
  (CycleDone /\ streak'.n > 1 /\ streak'.users # <<>>) => Store' # Store

\* C3: merging the same snapshot n times within one UTC hour into an empty
\* store leaves, for every id of the snapshot, the current-hour bucket with
\* total n times the number of rows of the snapshot that carry the id (and
\* a, w, d n times the number of those rows with that presence); a repeated
\* merge of a non-empty snapshot changes the store.
C3_Accumulation == []C3_Totals /\ [][C3_NotIdempotent]_vars

\* The same two-row snapshot merged twice into the empty store.
C3_Witness ==
  /\ streak.n = 2
  /\ Len(streak.users) = 2
  /\ streak.users[1].id # streak.users[2].id
  /\ TallyAt(Store, streak.users[1].id, streak.hourKey).t = 2

\* Nothing readable is held under STORE_KEY: the key is absent or its text is
\* malformed JSON.
NothingStored == ~stored.present \/ ~parseOk(stored.text)

C4_LoadGivesEmpty == NothingStored => Store = EmptyStore

C4_CycleCompletes ==
  (NothingStored /\ cycles' = cycles + 1) =>
    /\ ~last'.threw
    /\ stored'.present /\ parseOk(stored'.text) /\ Store' # JsNull

\* C4: when STORE_KEY is absent or holds malformed JSON, loadStore() yields
\* the empty store on either backend, and a cycle started then runs to
\* completion and persists a store.
C4_AbsentLoadsEmpty == []C4_LoadGivesEmpty /\ [][C4_CycleCompletes]_vars

\* The fields a merge overwrites only with a non-empty value; a row and a
\* record name them alike.
TextFields ==
  {"name", "avatar", "customStatusEmoji", "customStatusEmojiShort",
   "customStatusText", "customStatusSrc"}

\* The largest element of a non-empty set of row indices.
LastOf(rows) == CHOOSE i \in rows : \A j \in rows : j <= i

\* The rows of a snapshot that carry an id and a non-empty value for field f.
RowsSupplying(users, id, f) == {i \in RowsOf(users, id) : users[i][f] # ""}

C5_Fields ==
  CycleDone =>
    \A id \in DOMAIN UsersOf(Store') : \A f \in TextFields :
      LET us       == last'.users
          new      == UsersOf(Store')[id][f]
          known    == id \in DOMAIN UsersOf(Store)
          old      == IF known THEN UsersOf(Store)[id][f] ELSE ""
          supplied == RowsSupplying(us, id, f)
      IN /\ supplied # {} => new = us[LastOf(supplied)][f]
         /\ supplied = {} => new = old
         /\ old # "" => new # ""

\* C5: in every merge, a field among name, avatar and the custom-status
\* fields of a record changes only when a row of the snapshot supplies a
\* non-empty value for it, and then equals the value of the last such row;
\* a row with an empty value, or no row at all, leaves the stored value
\* unchanged, so a non-empty value never becomes empty.
C5_NonDestructiveUpdate == [][C5_Fields]_vars

\* A blank row was merged over a record whose name and custom status were
\* recorded earlier.
C5_Witness ==
  /\ AfterCycle
  /\ last.users = <<BlankRow("u1", PRES_OFF)>>
  /\ "u1" \in DOMAIN UsersOf(Store)
  /\ UsersOf(Store)["u1"].name # ""
  /\ UsersOf(Store)["u1"].customStatusText # ""

C6_LastSeen ==
  CycleDone =>
    \A id \in DOMAIN UsersOf(Store') :
      LET us     == last'.users
          new    == UsersOf(Store')[id]
          known  == id \in DOMAIN UsersOf(Store)
          old    == IF known THEN UsersOf(Store)[id].lastSeenActive ELSE NullTs
          active == RowsWith(us, id, PRES_ACTIVE)
          rows   == RowsOf(us, id)
      IN /\ active # {} =>
              /\ new.lastSeenActive = last'.dateNow[LastOf(active)]
              /\ clock <= new.lastSeenActive /\ new.lastSeenActive <= clock'
         /\ active = {} => new.lastSeenActive = old
         /\ old <= new.lastSeenActive
         /\ rows # {} => new.lastStatus = us[LastOf(rows)].presence
         /\ (rows = {} /\ known) => new.lastStatus = UsersOf(Store)[id].lastStatus

\* C6: a merge that observes a record as active sets lastSeenActive to the
\* reading of the clock taken for that row, which lies between the clock
\* before and after the cycle; a merge that observes it otherwise, or not at
\* all, leaves lastSeenActive unchanged; lastSeenActive never decreases; and
\* lastStatus is afterwards the presence of the record's last row.
C6_LastSeenActive == [][C6_LastSeen]_vars

\* A record seen active earlier was just observed offline.
C6_Witness ==
  /\ AfterCycle
  /\ last.users = <<PlainRow("u1", PRES_OFF)>>
  /\ "u1" \in DOMAIN UsersOf(Store)
  /\ UsersOf(Store)["u1"].lastSeenActive # NullTs
  /\ UsersOf(Store)["u1"].lastSeenActive < clock
  /\ UsersOf(Store)["u1"].lastStatus = PRES_OFF

\* A record without its hourly mapping.
Identity(rec) == [rec EXCEPT !.hourly = NoHourly]

\* The store logPresenceOnce hands to pruneOld in this step.
Merged == Merge(Store, last'.users, last'.hourKey, last'.dateNow)

C7_Retained ==
  /\ ~Cleared => DOMAIN UsersOf(Store) \subseteq DOMAIN UsersOf(Store')
  /\ CycleDone =>
       /\ DOMAIN UsersOf(Store') = DOMAIN Merged.users
       /\ \A id \in DOMAIN Merged.users :
            Identity(UsersOf(Store')[id]) = Identity(Merged.users[id])
       /\ \A id \in DOMAIN UsersOf(Store) :
            RowsOf(last'.users, id) = {} =>
              Identity(UsersOf(Store')[id]) = Identity(UsersOf(Store)[id])

\* C7: in every step that is not a confirmed clear the set of record ids of
\* the store does not shrink; pruneOld leaves the set of records and every
\* field of every record but hourly as the merge left them, and a record
\* whose user is absent from the snapshot keeps all those fields.
C7_RecordsRetained == [][C7_Retained]_vars

\* After a completed cycle the store holds a record that the snapshot did not
\* show and whose hourly mapping pruning has emptied.
C7_Witness ==
  /\ AfterCycle
  /\ \E id \in DOMAIN UsersOf(Store) :
       /\ RowsOf(last.users, id) = {}
       /\ DOMAIN UsersOf(Store)[id].hourly = {}
       /\ UsersOf(Store)[id].lastSeenActive # NullTs

\* hourly restricted to the keys inside the window taken at the instant n.
WindowOf(hourly, n, H) ==
  [k \in {x \in DOMAIN hourly : InWindow(x, n, H)} |-> hourly[k]]

C8_PruneExact ==
  CycleDone =>
    LET H == prefs.horizonDays
    IN \E d \in 1..H :
         \A id \in DOMAIN Merged.users :
           UsersOf(Store')[id].hourly = WindowOf(Merged.users[id].hourly, last'.pruneNow[d], H)

\* C8: pruneOld deletes exactly the hourly keys outside
\* [utcDayStart(H-1), utcDayStart(0) + 24h) from every record, for the
\* window taken at some instant at which pruneOld read the clock: the keys
\* outside are absent afterwards, the keys inside are present with their
\* tallies unchanged.
C8_PruneExactWindow == [][C8_PruneExact]_vars

\* key k is in the store before the step and is not after it
Dropped(id, k) ==
  /\ id \in DOMAIN UsersOf(Store) /\ k \in DOMAIN UsersOf(Store)[id].hourly
  /\ ~(id \in DOMAIN UsersOf(Store') /\ k \in DOMAIN UsersOf(Store')[id].hourly)

\* the tally of a bucket that stays has no counter decreased
Grown(id, k) ==
  LET old == TallyAt(Store, id, k)
      new == TallyAt(Store', id, k)
  IN /\ id \in DOMAIN UsersOf(Store') /\ k \in DOMAIN UsersOf(Store')[id].hourly
     /\ old.a <= new.a /\ old.w <= new.w /\ old.d <= new.d /\ old.t <= new.t

\* the step is a completed cycle whose pruneOld did not keep k
Pruned(k) == CycleDone /\ k \notin KeepSet(prefs.horizonDays, last'.pruneNow)

C9_OnlyPruned ==
  \A id \in DOMAIN UsersOf(Store) : \A k \in DOMAIN UsersOf(Store)[id].hourly :
    Grown(id, k) \/ (Dropped(id, k) /\ Pruned(k))

\* C9 as stated: the counters of a bucket never decrease while it exists,
\* and a bucket ceases to exist only by being deleted by pruning.
C9_OnlyPruningDeletes == [][C9_OnlyPruned]_vars

C9_PrunedOrCleared ==
  \A id \in DOMAIN UsersOf(Store) : \A k \in DOMAIN UsersOf(Store)[id].hourly :
    \/ Grown(id, k)
    \/ Dropped(id, k) /\ Pruned(k) /\ id \in DOMAIN UsersOf(Store')
    \/ Dropped(id, k) /\ Cleared /\ DOMAIN UsersOf(Store') = {}

\* C9: from one store state to the next no counter of a bucket that stays
\* decreases; a bucket ceases to exist only as a whole, either because the
\* pruneOld of a completed cycle did not keep its key (its record stays) or
\* because a confirmed clearStore discarded every record.
C9_MonotoneTallies == [][C9_PrunedOrCleared]_vars

\* After a completed cycle a record seen active earlier has lost the bucket
\* of that hour to pruning and holds the bucket of the current hour.
C9_Witness ==
  /\ AfterCycle
  /\ \E id \in DOMAIN UsersOf(Store) :
       LET rec == UsersOf(Store)[id]
       IN /\ rec.lastSeenActive # NullTs
          /\ toUtcHourKey(rec.lastSeenActive) \notin DOMAIN rec.hourly
          /\ last.hourKey \in DOMAIN rec.hourly

C10_AfterClear ==
  last.op = "clearStore" => stored = Absent /\ Store = EmptyStore /\ ~last.threw

C10_Step ==
  /\ last'.op = "clearDeclined" => stored' = stored
  /\ last.op = "clearStore" =>
       /\ ~last'.threw
       /\ cycles' = cycles + 1 =>
            \A id \in DOMAIN UsersOf(Store') :
              /\ RowsOf(last'.users, id) # {}
              /\ DOMAIN UsersOf(Store')[id].hourly = {last'.hourKey}

\* C10: a confirmed clearStore deletes STORE_KEY and the store every reader
\* loads afterwards is the empty store: the render clearStore triggers and
\* the handler that runs next (render, filter click, tooltip, export or
\* cycle) end without an error, and a cycle that runs next persists only
\* records and buckets of its own snapshot; a declined clearStore leaves
\* what is stored unchanged.
C10_ClearEmpties == []C10_AfterClear /\ [][C10_Step]_vars

\* a failed cycle leaves what is stored as it was
C11_NoPartialUpdate == (cycles' = cycles + 1 /\ last'.threw) => stored' = stored

\* after a failed cycle a cycle that completes and persists can be taken
C11_CanRecover ==
  (last.op = "logPresenceOnce" /\ last.threw /\ cycles < MaxCycles) =>
    ENABLED (logPresenceOnce(SnapshotsSpec, Instants) /\ ~last'.threw /\ stored'.present)

\* C11: a cycle that fails before persisting leaves the persisted store
\* exactly as it was, and in every state reached after a failed cycle a cycle
\* that completes and persists its observations is possible.
C11_SelfHealing == []C11_CanRecover /\ [][C11_NoPartialUpdate]_vars

C12_Enumeration ==
  \A id \in DOMAIN UsersOf(Store) : UsersOf(Store)[id].lastStatus \in Presences

C12_Unrecognised ==
  (CycleDone /\ last'.users = <<DomRow("u1", UnknownDom)>>) =>
    LET k   == last'.hourKey
        old == TallyAt(Store, "u1", k)
        new == TallyAt(Store', "u1", k)
    IN /\ "u1" \in DOMAIN UsersOf(Store')
       /\ UsersOf(Store')["u1"].lastStatus = PRES_OFF
       /\ k \in DOMAIN UsersOf(Store')["u1"].hourly =>
            new.t = old.t + 1 /\ new.a = old.a /\ new.w = old.w /\ new.d = old.d

\* C12: a row whose presence markup shows none of the recognised markers
\* does not abort the merge; it is sampled as offline: its total is
\* incremented and none of a, w, d is; and lastStatus of every record is
\* always one of active, away, dnd, offline.
C12_UnknownStatus == []C12_Enumeration /\ [][C12_Unrecognised]_vars

\* A row with unrecognised markup was merged after the user had been seen
\* active in the same hour.
C12_Witness ==
  /\ AfterCycle
  /\ last.users = <<DomRow("u1", UnknownDom)>>
  /\ UsersOf(Store)["u1"].lastStatus = PRES_OFF
  /\ TallyAt(Store, "u1", last.hourKey).t = 2
  /\ TallyAt(Store, "u1", last.hourKey).a = 1

\* The statements run in the order load, merge, prune, save, render; an
\* exception in the merge or in pruneOld ends the invocation.
C13_Order ==
  pc' # pc =>
    \/ pc = "idle"   /\ pc' = "merge"
    \/ pc = "merge"  /\ pc' = "prune"
    \/ pc = "merge"  /\ pc' = "idle" /\ last'.threw
    \/ pc = "prune"  /\ pc' = "save"
    \/ pc = "prune"  /\ pc' = "idle" /\ last'.threw
    \/ pc = "save"   /\ pc' = "render"
    \/ pc = "render" /\ pc' = "idle"

\* While an invocation runs, what is stored changes only by its saveStore.
C13_OnlyOwnWrite ==
  (pc # "idle" /\ stored' # stored) =>
    pc = "save" /\ pc' = "render" /\ stored' = saveStore(local)

\* What the invocation holds is derived from what is stored now: nothing was
\* written since its load.
C13_NoLostUpdate ==
  /\ pc = "merge" => local = Store
  /\ (pc = "prune" /\ Store # JsNull) =>
       local = Merge(Store, last.users, last.hourKey, last.dateNow)
  /\ pc = "save" =>
       local = pruneOld(Merge(Store, last.users, last.hourKey, last.dateNow),
                        prefs.horizonDays, last.pruneNow)
  /\ pc = "render" => Store = local

\* C13: every invocation of logPresenceOnce, whatever triggers it, runs
\* load, merge, prune, persist, rerender in this order; the store it persists
\* is the pruned merge of the store it loaded, and between its load and its
\* save nothing else writes the store.
C13_AtomicCycle ==
  /\ []C13_NoLostUpdate
  /\ [][C13_Order /\ C13_OnlyOwnWrite]_vars

\* The second invocation has persisted and is about to rerender.
C13_Witness ==
  /\ pc = "render"
  /\ cycles = 2
  /\ last.users # <<>>
  /\ DOMAIN UsersOf(Store) # {}

ReadSide == {"renderOverlay", "filterClick", "showTooltip", "exportStore", "clearDeclined"}

C14_Frame ==
  /\ stored' # stored => (CycleDone \/ Cleared)
  /\ last'.op \in ReadSide => stored' = stored

\* C14: the render of the overlay, the tooltip, the export, a filter click,
\* a search and a declined clear never change what is stored under
\* STORE_KEY; it changes only in a completed cycle or a confirmed clear.
C14_ReadersDoNotWrite == [][C14_Frame]_vars

\* The vacation filter was just chosen over a store that holds a record.
C14_Witness ==
  /\ last.op = "filterClick"
  /\ ~last.threw
  /\ prefs.overlayFilter = "vacation"
  /\ DOMAIN UsersOf(Store) # {}
  /\ out # NoOut

\* The class of a tally by the rule: active if active >= threshold, else dnd
\* if dnd >= threshold, else away if away >= threshold, else inactive; an
\* absent tally is inactive.
ClassByRule(hr, th) ==
  CASE hr = Undefined -> "inactive"
    [] hr # Undefined /\ hr.a >= th -> "active"
    [] hr # Undefined /\ hr.a < th /\ hr.d >= th -> "dnd"
    [] hr # Undefined /\ hr.a < th /\ hr.d < th /\ hr.w >= th -> "away"
    [] OTHER -> "inactive"

\* the class names of the cells
CellClass(c) ==
  CASE c = "active" -> "a" [] c = "dnd" -> "d" [] c = "away" -> "w" [] OTHER -> "i"

\* C15: for every tally and threshold the mini-bar classifier and the
\* heatmap classifier give the same class, which is active if
\* tally.active >= threshold, else dnd if tally.dnd >= threshold, else away if
\* tally.away >= threshold, else inactive; an absent tally is inactive.
C15_Classification ==
  out.op = "classify" =>
    /\ out.mini = CellClass(ClassByRule(out.hr, out.th))
    /\ out.heat = out.mini

\* {active 1, away 5, dnd 0, total 6} with threshold 1 was classified active.
C15_Witness ==
  /\ out.op = "classify"
  /\ out.hr = [a |-> 1, w |-> 5, d |-> 0, t |-> 6]
  /\ out.th = 1
  /\ out.mini = "a"

\* The grid has the shape H x 24 and is the one of the instant n: row d
\* (0 = today) holds in column h the class of the bucket that starts at
\* utcDayStart(d) + h hours.
GridOf(rows, rec, H, n, th) ==
  /\ DOMAIN rows = 1..H
  /\ \A r \in 1..H :
       /\ DOMAIN rows[r] = 1..HoursPerDay
       /\ \A c \in 1..HoursPerDay :
            LET key == toISOString(utcStartOfDayMinus(n, r - 1) + (c - 1) * HourMs)
            IN /\ rows[r][c].key = key
               /\ rows[r][c].cls = CellClass(ClassByRule(HourlyAt(rec, key), th))

\* C16: for every record, an absent one and one with empty hourly included,
\* the grid of the tooltip has exactly horizonDays rows of exactly 24 cells
\* and is the grid of one of the instants at which the clock was read for
\* it: row d (0 = today) holds in column h the class of the bucket starting
\* at utcDayStart(d) + h hours.
C16_HeatmapGrid ==
  out.op = "showTooltip" =>
    \E i \in DOMAIN out.reads :
      GridOf(out.rows, out.rec, prefs.horizonDays, out.reads[i], prefs.activeThresholdMin)

\* C17: for every record the mini bars are exactly MiniHours (12) cells,
\* oldest first; the k-th from the end is the class of the bucket
\* toUtcHourKey(now - k hours), so the last is the current UTC hour.
C17_RollingWindow ==
  (out.op = "renderMiniBars" /\ out.rec # Undefined) =>
    /\ DOMAIN out.cells = 1..MiniHours
    /\ \A k \in 0..(MiniHours - 1) :
         LET key == toUtcHourKey(out.n - k * HourMs)
             c   == out.cells[MiniHours - k]
         IN /\ c.key = key
            /\ c.cls = CellClass(ClassByRule(HourlyAt(out.rec, key), prefs.activeThresholdMin))
    /\ out.cells[MiniHours].key = toUtcHourKey(out.n)

\* Mini bars drawn just after midnight for a record sampled active at 10:15
\* and dnd at 23:59 of the day before: the 23:00 cell is the last but one.
C17_Witness ==
  /\ out.op = "renderMiniBars"
  /\ out.rec # Undefined
  /\ out.n = DayMs + 1000
  /\ out.cells[MiniHours - 1].cls = "d"
  /\ out.cells[MiniHours].cls = "i"
  /\ Cardinality(DOMAIN out.rec.hourly) = 2

\* C18: for whole-second elapsed times fmtSince gives 'just now' below 60 s,
\* floor(s / 60) minutes from 60 s to below 60 min, floor(s / 3600) hours
\* from 60 min to below 24 h, floor(s / 86400) days from 24 h on; the dash
\* for a null instant.
C18_SinceBoundaries ==
  out.op = "fmtSince" =>
    IF out.ts = NullTs THEN out.text = SinceText(0, "-")
    ELSE LET sec == (out.now - out.ts) \div 1000
         IN /\ (0 <= sec /\ sec < 60) => out.text = SinceText(0, "just now")
            /\ (60 <= sec /\ sec < 3600) => out.text = SinceText(sec \div 60, "min")
            /\ (3600 <= sec /\ sec < 86400) => out.text = SinceText(sec \div 3600, "h")
            /\ 86400 <= sec => out.text = SinceText(sec \div 86400, "d")

\* fmtSince gave '1 h' for exactly 60 minutes.
C18_Witness ==
  /\ out.op = "fmtSince"
  /\ out.now - out.ts = HourMs
  /\ out.text = SinceText(1, "h")

\* C19: toUtcHourKey gives two instants the same key exactly when they lie
\* in the same UTC hour, and the key is the start of that hour: not later
\* than the instant and less than one hour before it.
C19_HourKey ==
  out.op = "toUtcHourKey" =>
    /\ (out.k1 = out.k2) <=> (out.d1 \div HourMs = out.d2 \div HourMs)
    /\ out.k1[3] = 0
    /\ parseISO(out.k1) <= out.d1
    /\ out.d1 < parseISO(out.k1) + HourMs
    /\ parseISO(out.k1) % HourMs = 0

\* The last millisecond of a day and the first of the next have keys of
\* different days.
C19_Witness ==
  /\ out.op = "toUtcHourKey"
  /\ out.d1 = DayMs - 1
  /\ out.d2 = DayMs
  /\ out.k1 = <<0, HoursPerDay - 1, 0>>
  /\ out.k2 = <<1, 0, 0>>

\* C20: isVacation returns a boolean and never throws, whichever
\* custom-status fields its argument lacks, also when showTooltip calls it
\* for an id that has neither a stored record nor a row of the sidebar.
C20_VacationTotal ==
  out.op = "isVacation" => ~out.threw /\ out.res \in BOOLEAN

\* This step is the loop of logPresenceOnce over the rows, run to its end.
MergeStep == pc = "merge" /\ pc' = "prune" /\ local # JsNull

\* The ids of the rows of a snapshot.
IdsOf(users) == {users[i].id : i \in 1..Len(users)}

\* The hourly map of a record before the merge; a record the merge creates
\* starts with none.
HourlyBefore(st, id) ==
  IF id \in DOMAIN st.users THEN st.users[id].hourly ELSE NoHourly

C21_Records ==
  MergeStep =>
    LET us == last'.users
    IN /\ DOMAIN local'.users = DOMAIN local.users \cup IdsOf(us)
       /\ \A id \in DOMAIN local.users \ IdsOf(us) : local'.users[id] = local.users[id]

C21_Buckets ==
  MergeStep =>
    \A id \in IdsOf(last'.users) :
      LET us  == last'.users
          k   == last.hourKey
          old == HourlyBefore(local, id)
          new == local'.users[id].hourly
          h0  == IF k \in DOMAIN old THEN old[k] ELSE ZeroTally
      IN /\ k = toUtcHourKey(clock)
         /\ DOMAIN new = DOMAIN old \cup {k}
         /\ \A j \in DOMAIN old \ {k} : new[j] = old[j]
         /\ new[k] = [a |-> h0.a + Cardinality(RowsWith(us, id, PRES_ACTIVE)),
                      w |-> h0.w + Cardinality(RowsWith(us, id, PRES_AWAY)),
                      d |-> h0.d + Cardinality(RowsWith(us, id, PRES_DND)),
                      t |-> h0.t + Cardinality(RowsOf(us, id))]

C21_Created ==
  MergeStep =>
    \A id \in IdsOf(last'.users) \ DOMAIN local.users :
      LET us  == last'.users
          rec == local'.users[id]
      IN /\ rec.id = id
         /\ DOMAIN rec.hourly = {last.hourKey}
         /\ rec.lastStatus = us[LastOf(RowsOf(us, id))].presence
         /\ rec.lastSeenActive =
              IF RowsWith(us, id, PRES_ACTIVE) = {} THEN NullTs ELSE clock

C21_Scenario ==
  (MergeStep /\ local = EmptyStore /\ clock = 10 * HourMs + 15 * MinuteMs
     /\ last'.users = <<PlainRow("u1", PRES_ACTIVE)>>) =>
    /\ DOMAIN local'.users = {"u1"}
    /\ DOMAIN local'.users["u1"].hourly = {<<0, 10, 0>>}
    /\ local'.users["u1"].hourly[<<0, 10, 0>>] = [a |-> 1, w |-> 0, d |-> 0, t |-> 1]
    /\ local'.users["u1"].lastSeenActive = 10 * HourMs + 15 * MinuteMs

\* C21: the merge loop of a cycle at the instant now changes only the
\* records whose id occurs in the snapshot; in such a record it changes no
\* hourly bucket but the one of toUtcHourKey(now), which starts from
\* {0,0,0,0} where it was absent and gains one per row; a record it creates
\* starts with no bucket, a null lastSeenActive and lastStatus offline, so
\* that after the merge it holds the one bucket, the presence of its last row
\* and a lastSeenActive only if a row was active.  Merging u1 active at 10:15
\* into the empty store gives the one bucket 10:00 = {a:1, w:0, d:0, t:1}.
C21_MergeFrame == [][C21_Records /\ C21_Buckets /\ C21_Created /\ C21_Scenario]_vars

\* The merge has created a record for u2, seen away, beside the record of u1
\* that holds a bucket of an earlier hour and was left as it was stored.
C21_Witness ==
  /\ pc = "prune"
  /\ local # JsNull
  /\ IdsOf(last.users) = {"u2"}
  /\ DOMAIN local.users = {"u1", "u2"}
  /\ local.users["u1"] = Store.users["u1"]
  /\ last.hourKey \notin DOMAIN local.users["u1"].hourly
  /\ local.users["u2"].lastSeenActive = NullTs
  /\ local.users["u2"].lastStatus = PRES_AWAY

\* C22: after every completed cycle with horizonDays >= 1 every user the
\* cycle observed has, in the persisted store, the bucket the cycle
\* incremented, with a total of at least 1: the cycle's own pruneOld does
\* not delete what its merge has just written, wherever the clock moves on
\* between the two.
C22_OwnBucketKept ==
  (AfterCycle /\ prefs.horizonDays >= 1) =>
    \A id \in IdsOf(last.users) :
      /\ id \in DOMAIN UsersOf(Store)
      /\ last.hourKey \in DOMAIN UsersOf(Store)[id].hourly
      /\ UsersOf(Store)[id].hourly[last.hourKey].t >= 1

\* The keys showTooltip's grid has looked up.
KeysOf(rows) == {rows[r][c].key : r \in DOMAIN rows, c \in 1..HoursPerDay}

\* The grid was built without the clock passing midnight: every row's reading
\* is on one UTC day.
OneReading(reads) == \A r \in DOMAIN reads : reads[r] = reads[1]

\* C23: for one reading n of the clock and the same horizonDays, the keys the
\* tooltip's grid looks up are exactly the keys pruneOld keeps: no cell reads
\* a key pruneOld would delete, and every bucket of the record that pruneOld
\* would retain is shown by a cell, with the class of its tally.
C23_GridIsKeepSet ==
  (out.op = "showTooltip" /\ OneReading(out.reads)) =>
    LET H    == prefs.horizonDays
        keep == KeepSet(H, [d \in 1..H |-> out.reads[1]])
        th   == prefs.activeThresholdMin
    IN /\ KeysOf(out.rows) = keep
       /\ out.rec # Undefined =>
            \A k \in DOMAIN PruneRecord(out.rec, keep).hourly :
              \E r \in 1..H, c \in 1..HoursPerDay :
                out.rows[r][c] = [key |-> k, cls |-> ClassifyHeat(out.rec.hourly[k], th)]

\* A tooltip of two rows for a record whose bucket of the day before is
\* retained and shown active in the second row.
C23_Witness ==
  /\ out.op = "showTooltip"
  /\ OneReading(out.reads)
  /\ prefs.horizonDays = 2
  /\ out.rec # Undefined
  /\ \E k \in DOMAIN out.rec.hourly, c \in 1..HoursPerDay :
       /\ k[1] = getUTCDate(out.reads[1]) - 1
       /\ out.rows[2][c] = [key |-> k, cls |-> "a"]

\* The sum of f[x] over the elements x of S.
RECURSIVE SumOver(_, _)
SumOver(S, f) ==
  IF S = {} THEN 0
  ELSE LET x == CHOOSE y \in S : TRUE IN f[x] + SumOver(S \ {x}, f)

\* By how much the loop of this step has raised the total of the current
\* hour in the record of id.
Increase(id) == TallyAt(local', id, last.hourKey).t - TallyAt(local, id, last.hourKey).t

C24_PerRecord ==
  MergeStep =>
    \A id \in DOMAIN local'.users : Increase(id) = Cardinality(RowsOf(last'.users, id))

C24_Sum ==
  MergeStep =>
    SumOver(DOMAIN local'.users, [id \in DOMAIN local'.users |-> Increase(id)])
      = Len(last'.users)

\* The loop alone, between the load and pruneOld, counts one per row: it
\* raises the current-hour total of a record by the number of rows that carry
\* the record's id and the totals together by the length of the snapshot.
LoopCountsPerRow == [][C24_PerRecord /\ C24_Sum]_vars

\* By how much this cycle has raised the persisted total of its hour in the
\* record of id.
CycleIncrease(id) ==
  TallyAt(Store', id, last'.hourKey).t - TallyAt(Store, id, last'.hourKey).t

C24_Cycle ==
  CycleDone =>
    LET ids == DOMAIN UsersOf(Store')
    IN /\ \A id \in ids : CycleIncrease(id) = Cardinality(RowsOf(last'.users, id))
       /\ SumOver(ids, [id \in ids |-> CycleIncrease(id)]) = Len(last'.users)

\* C24: one cycle raises the current-hour total of a record by exactly the
\* number of rows of the snapshot that carry the record's id, an id on two
\* rows being counted twice, and the increases of all records add up to the
\* length of the snapshot.
C24_CountPerRow == [][C24_Cycle]_vars

\* The buckets of a record that hold an active sample.
ActiveKeys(rec) == {k \in DOMAIN rec.hourly : rec.hourly[k].a >= 1}

\* C25: in every store state, a record with a retained bucket of active >= 1
\* has a lastSeenActive that is not null and, the clock never going back, not
\* earlier than the start of any of its buckets with active >= 1.
C25_SeenCoversActive ==
  \A id \in DOMAIN UsersOf(Store) :
    LET rec == UsersOf(Store)[id]
    IN \A k \in ActiveKeys(rec) :
         /\ rec.lastSeenActive # NullTs
         /\ rec.lastSeenActive >= parseISO(k)

\* A record with active buckets on two days, last sampled offline after its
\* latest active hour had begun.
C25_Witness ==
  /\ AfterCycle
  /\ \E id \in DOMAIN UsersOf(Store) :
       LET rec == UsersOf(Store)[id]
       IN /\ \E k1 \in ActiveKeys(rec), k2 \in ActiveKeys(rec) : k1[1] < k2[1]
          /\ rec.lastStatus = PRES_OFF
          /\ \A k \in ActiveKeys(rec) : rec.lastSeenActive > parseISO(k)

C26_KeyIsId ==
  \A k \in DOMAIN UsersOf(Store) : UsersOf(Store)[k].id = k

C26_IdStable ==
  \A k \in DOMAIN UsersOf(Store) \cap DOMAIN UsersOf(Store') :
    UsersOf(Store')[k].id = UsersOf(Store)[k].id

\* C26: in every store state every record is stored under its own id,
\* users[k].id = k for every key k of the users mapping, and no step changes
\* the id of a record that exists.
C26_StoredUnderOwnId == []C26_KeyIsId /\ [][C26_IdStable]_vars

\* Two records; u1 was created as Ann and a later cycle has renamed it.
C26_Witness ==
  /\ AfterCycle
  /\ cycles = 2
  /\ DOMAIN UsersOf(Store) = {"u1", "u2"}
  /\ UsersOf(Store)["u1"].name = "Anna"
  /\ UsersOf(Store)["u1"].id = "u1"
  /\ UsersOf(Store)["u2"].id = "u2"

====
